---- MODULE Spec2Model ----
(***************************************************************************)
(* A model of the orchestr database layer: the Ensemble record builder     *)
(* (EnsembleBuilder: clone, hydration, paginate, chunk), the query state   *)
(* it inherits from the query builder, and the DatabaseManager.            *)
(*                                                                         *)
(* JavaScript arrays and objects are reference values.  The model keeps a  *)
(* heap: heap.arrays[r] is the content of the array object with reference  *)
(* r, and a builder's fields _columns, _wheres, ... hold references, so    *)
(* that two builders sharing one array is a state the model can express.   *)
(***************************************************************************)
EXTENDS Integers, Sequences, FiniteSets, TLC

VARIABLES
  heap,      \* [builders: Seq(builder object), arrays: Seq(array content)]
  lastOp,    \* the last fluent call or clone: [op, target, source]
  nops,      \* number of fluent calls made so far
  nclones,   \* number of clone() calls made so far
  table,     \* the rows of the queried table, in result order
  pc,        \* where the running builder operation stands ("idle": none)
  op,        \* the running operation and its arguments
  inflight,  \* the query awaiting the adapter's answer (<<>>: none)
  total,     \* paginate's local total
  page,      \* chunk's local page
  queries,   \* every query handed to the adapter by the running operation
  cbLog,     \* the pages chunk's callback was invoked with
  lastRet,   \* what the callback returned last ("none": not yet)
  result,    \* the promise the operation returned
  thrown,    \* the error the adapter rejected with ("": none)
  constructed, \* model instances constructed by the running operation
  mgrDefault,     \* DatabaseManager config.default
  mgrConnections, \* the connection cache: name -> Connection (0: no entry)
  mgrFactories,   \* the adapter names with a registered factory
  mgrLast,        \* the last call on the manager and its outcome
  mgrThrew,       \* the names connection() has thrown for
  nextConn,       \* Connections created so far (the last one's identity)
  factoryCalls,   \* adapter factory invocations per connection name
  pending,        \* disconnect calls awaiting connection.disconnect()
  gone,           \* keys of the rows another writer has deleted
  born,           \* keys of the rows another writer has inserted
  build,          \* how the build constructs an Array subclass from a length
  coll,           \* the EnsembleCollection the caller holds
  cop,            \* the last call on the collection and its arguments
  cres,           \* what that call returned or threw
  chunkLoop       \* chunkModels' loop: where it stands and its variable i

bvars == <<heap, lastOp, nops, nclones>>
qvars == <<table, pc, op, inflight, total, page, queries, cbLog, lastRet,
           result, thrown, constructed>>
mvars == <<mgrDefault, mgrConnections, mgrFactories, mgrLast, mgrThrew,
           nextConn, factoryCalls, pending>>
wvars == <<gone, born>>
cvars == <<build, coll, cop, cres, chunkLoop>>
vars == <<bvars, qvars, mvars, wvars, cvars>>

---------------------------------------------------------------------------
(* Bounds of the model *)

MaxOps == 2        \* fluent calls in one behaviour
MaxClones == 1     \* clone() calls in one behaviour
MaxRows == 5       \* rows of the queried table
MaxPerPage == 3    \* paginate's perPage and chunk's count
MaxPage == 3       \* paginate's page
MaxConns == 2      \* Connections a manager creates in one behaviour
MaxPending == 2    \* disconnect calls in flight at once
MaxWrites == 2     \* rows another writer deletes or inserts in one behaviour
MaxLen == 3        \* records of a collection

BindValues == {1, 2}          \* values bound by where() and having()
Relations == {"posts", "tags"}

---------------------------------------------------------------------------
(* Sequence helpers *)

InsertAt(s, i, x) == SubSeq(s, 1, i - 1) \o <<x>> \o SubSeq(s, i, Len(s))

RECURSIVE Flatten(_)
Flatten(ss) == IF ss = <<>> THEN <<>> ELSE Head(ss) \o Flatten(Tail(ss))

Contains(s, x) == \E i \in 1..Len(s) : s[i] = x

---------------------------------------------------------------------------
(* The heap and the builder object *)

EmptyHeap == [builders |-> <<>>, arrays |-> <<>>]

\* A builder b of heap h, and the content of one of its array fields.
Builder(h, b) == h.builders[b]
Arr(h, r) == h.arrays[r]

\* array.push(x), in place.
Push(h, r, x) == [h EXCEPT !.arrays[r] = Append(@, x)]

\* QueryBuilder.from(table): sets the target table.
from(h, b, tbl) == [h EXCEPT !.builders[b]._table = tbl]

\* new EnsembleBuilder(adapter, model): the query builder's fields start
\* empty, each array a fresh object; eagerLoad = {}; then from(model table).
\* A model is named by its table.  An optional number (limit, offset) is
\* <<>> when unset and <<n>> when set.
Constructor(h, adapter, model) ==
  LET base == Len(h.arrays)
      obj == [adapter |-> adapter, model |-> model,
              _columns |-> base + 1, _distinct |-> FALSE, _table |-> "",
              _wheres |-> base + 2, _joins |-> base + 3, _orders |-> base + 4,
              _groups |-> base + 5, _havings |-> base + 6,
              _limit |-> <<>>, _offset |-> <<>>,
              _bindings |-> base + 7, eagerLoad |-> base + 8]
      h1 == [builders |-> Append(h.builders, obj),
             arrays |-> h.arrays \o [i \in 1..8 |-> <<>>]]
  IN from(h1, Len(h1.builders), model)

\* The query state of builder b with every reference resolved to its content.
View(h, b) ==
  LET o == Builder(h, b) IN
  [adapter |-> o.adapter, model |-> o.model,
   _columns |-> Arr(h, o._columns), _distinct |-> o._distinct, _table |-> o._table,
   _wheres |-> Arr(h, o._wheres), _joins |-> Arr(h, o._joins),
   _orders |-> Arr(h, o._orders), _groups |-> Arr(h, o._groups),
   _havings |-> Arr(h, o._havings), _limit |-> o._limit, _offset |-> o._offset,
   _bindings |-> Arr(h, o._bindings), eagerLoad |-> Arr(h, o.eagerLoad)]

---------------------------------------------------------------------------
(* Fluent configuration calls of the query builder.  Each returns the same *)
(* builder and changes only that builder's query state.                    *)

\* Number of bindings the join and where clauses of a builder own: a join
\* (JoinClause: type, table, first, operator, second) compares two columns
\* and binds no value; a where clause binds one.
WhereBindings(h, b) == Len(Arr(h, Builder(h, b)._wheres))

\* A where() that binds its value at the end of the bindings, in call order.
whereAppending(h, b, column, operator, value) ==
  LET o == Builder(h, b)
      h1 == Push(h, o._wheres,
                 [column |-> column, operator |-> operator, value |-> value,
                  boolean |-> "and"])
  IN Push(h1, o._bindings, value)

\* where(column, operator, value): appends a WhereClause linked by "and" and
\* binds its value after the values of the earlier where clauses, before any
\* having value: the bindings sequence stays in the order the placeholders
\* are emitted.
where(h, b, column, operator, value) ==
  LET o == Builder(h, b)
      at == WhereBindings(h, b) + 1
      h1 == Push(h, o._wheres,
                 [column |-> column, operator |-> operator, value |-> value,
                  boolean |-> "and"])
  IN [h1 EXCEPT !.arrays[o._bindings] = InsertAt(@, at, value)]

\* having(column, operator, value): appends a having clause; its value is
\* bound after every where value and every earlier having value.
having(h, b, column, operator, value) ==
  LET o == Builder(h, b)
      h1 == Push(h, o._havings,
                 [column |-> column, operator |-> operator, value |-> value])
  IN Push(h1, o._bindings, value)

\* join(table, first, operator, second): appends an inner JoinClause.
join(h, b, tbl, first, operator, second) ==
  Push(h, Builder(h, b)._joins,
       [type |-> "inner", table |-> tbl, first |-> first,
        operator |-> operator, second |-> second])

\* orderBy(column, direction)
orderBy(h, b, column, direction) ==
  Push(h, Builder(h, b)._orders, [column |-> column, direction |-> direction])

\* groupBy(column)
groupBy(h, b, column) == Push(h, Builder(h, b)._groups, column)

\* select(column)
select(h, b, column) == Push(h, Builder(h, b)._columns, column)

\* distinct()
distinct(h, b) == [h EXCEPT !.builders[b]._distinct = TRUE]

\* limit(value)
limit(h, b, value) == [h EXCEPT !.builders[b]._limit = <<value>>]

\* offset(value)
offset(h, b, value) == [h EXCEPT !.builders[b]._offset = <<value>>]

\* with(relation): this.eagerLoad[relation] = () => {}.  The eagerLoad
\* object is kept as the sequence of its keys in insertion order; setting a
\* key that is present leaves the keys as they are.
with(h, b, relation) ==
  LET r == Builder(h, b).eagerLoad IN
  IF Contains(Arr(h, r), relation) THEN h ELSE Push(h, r, relation)

---------------------------------------------------------------------------
(* EnsembleBuilder.clone *)

\* A clone whose array fields are the receiver's own array objects.
cloneSharing(h, b) ==
  LET this == Builder(h, b)
      h0 == Constructor(h, this.adapter, this.model)
      c == Len(h0.builders)
  IN [h0 EXCEPT !.builders[c] = [this EXCEPT !.eagerLoad = Builder(h0, c).eagerLoad],
                !.arrays[Builder(h0, c).eagerLoad] = Arr(h, this.eagerLoad)]

\* A clone that copies the clause lists but neither offset nor eagerLoad.
cloneForgetting(h, b) ==
  LET this == Builder(h, b)
      h0 == Constructor(h, this.adapter, this.model)
      c == Len(h0.builders)
      cloned == Builder(h0, c)
  IN [h0 EXCEPT !.builders[c] = [cloned EXCEPT !._distinct = this._distinct,
                                               !._table = this._table,
                                               !._limit = this._limit],
                !.arrays[cloned._columns] = Arr(h, this._columns),
                !.arrays[cloned._wheres] = Arr(h, this._wheres),
                !.arrays[cloned._joins] = Arr(h, this._joins),
                !.arrays[cloned._orders] = Arr(h, this._orders),
                !.arrays[cloned._groups] = Arr(h, this._groups),
                !.arrays[cloned._havings] = Arr(h, this._havings),
                !.arrays[cloned._bindings] = Arr(h, this._bindings)]

\* clone(): a new EnsembleBuilder on this.adapter and this.model; every array
\* field is a new array holding the receiver's elements ([...this._wheres]),
\* eagerLoad a new object with the receiver's keys, the scalars are copied.
\* The new builder is the last one of the heap.
clone(h, b) ==
  LET this == Builder(h, b)
      h0 == Constructor(h, this.adapter, this.model)
      c == Len(h0.builders)
      cloned == Builder(h0, c)
  IN [h0 EXCEPT !.builders[c] = [cloned EXCEPT !._distinct = this._distinct,
                                               !._table = this._table,
                                               !._limit = this._limit,
                                               !._offset = this._offset],
                !.arrays[cloned._columns] = Arr(h, this._columns),
                !.arrays[cloned._wheres] = Arr(h, this._wheres),
                !.arrays[cloned._joins] = Arr(h, this._joins),
                !.arrays[cloned._orders] = Arr(h, this._orders),
                !.arrays[cloned._groups] = Arr(h, this._groups),
                !.arrays[cloned._havings] = Arr(h, this._havings),
                !.arrays[cloned._bindings] = Arr(h, this._bindings),
                !.arrays[cloned.eagerLoad] = Arr(h, this.eagerLoad)]

---------------------------------------------------------------------------
(* Compilation: toSql() and getBindings().  The SQL text is a sequence of  *)
(* tokens; a placeholder token carries in arg the value its clause means   *)
(* it to stand for, a LIMIT or OFFSET token the literal number.            *)

Tok(text) == [text |-> text, ph |-> FALSE, arg |-> 0]
Lit(text, n) == [text |-> text, ph |-> FALSE, arg |-> n]
Placeholder(value) == [text |-> "?", ph |-> TRUE, arg |-> value]

compileColumns(q) ==
  <<Tok("SELECT")>> \o (IF q._distinct THEN <<Tok("DISTINCT")>> ELSE <<>>)
  \o (IF q._columns = <<>> THEN <<Tok("*")>>
      ELSE [i \in 1..Len(q._columns) |-> Tok(q._columns[i])])

compileJoins(q) ==
  Flatten([i \in 1..Len(q._joins) |->
    <<Tok("JOIN"), Tok(q._joins[i].table), Tok("ON"), Tok(q._joins[i].first),
      Tok(q._joins[i].operator), Tok(q._joins[i].second)>>])

\* The first where clause drops its connector.
compileWheres(q) ==
  Flatten([i \in 1..Len(q._wheres) |->
    <<Tok(IF i = 1 THEN "WHERE" ELSE q._wheres[i].boolean),
      Tok(q._wheres[i].column), Tok(q._wheres[i].operator),
      Placeholder(q._wheres[i].value)>>])

compileGroups(q) ==
  IF q._groups = <<>> THEN <<>>
  ELSE <<Tok("GROUP BY")>> \o [i \in 1..Len(q._groups) |-> Tok(q._groups[i])]

compileHavings(q) ==
  Flatten([i \in 1..Len(q._havings) |->
    <<Tok(IF i = 1 THEN "HAVING" ELSE "and"),
      Tok(q._havings[i].column), Tok(q._havings[i].operator),
      Placeholder(q._havings[i].value)>>])

compileOrders(q) ==
  IF q._orders = <<>> THEN <<>>
  ELSE <<Tok("ORDER BY")>> \o
       Flatten([i \in 1..Len(q._orders) |->
                  <<Tok(q._orders[i].column), Tok(q._orders[i].direction)>>])

compileLimit(q) ==
  (IF q._limit = <<>> THEN <<>> ELSE <<Lit("LIMIT", q._limit[1])>>)
  \o (IF q._offset = <<>> THEN <<>> ELSE <<Lit("OFFSET", q._offset[1])>>)

\* toSql() of a query state q (a View): SELECT [DISTINCT] columns FROM table
\* [JOIN] [WHERE] [GROUP BY] [HAVING] [ORDER BY] [LIMIT] [OFFSET].
toSql(q) ==
  compileColumns(q) \o <<Tok("FROM"), Tok(q._table)>> \o compileJoins(q)
  \o compileWheres(q) \o compileGroups(q) \o compileHavings(q)
  \o compileOrders(q) \o compileLimit(q)

\* getBindings()
getBindings(q) == q._bindings

\* The values the placeholders of a SQL text stand for, in text order.
PlaceholderValues(sql) ==
  LET phs == SelectSeq(sql, LAMBDA t : t.ph) IN [i \in 1..Len(phs) |-> phs[i].arg]

---------------------------------------------------------------------------
(* Builder actions: fluent calls and clone() on any builder of the heap.   *)

Models == {"users", "posts"}
BuilderIds == 1..Len(heap.builders)

BuilderInit ==
  /\ \E m \in Models : heap = Constructor(EmptyHeap, "db", m)
  /\ lastOp = [op |-> "new", target |-> 1, source |-> 0]
  /\ nops = 0
  /\ nclones = 0

Called(name, b, h) ==
  /\ nops < MaxOps
  /\ heap' = h
  /\ lastOp' = [op |-> name, target |-> b, source |-> 0]
  /\ nops' = nops + 1
  /\ UNCHANGED <<nclones, qvars, mvars, wvars, cvars>>

DoWhere == \E b \in BuilderIds, v \in BindValues :
  Called("where", b, where(heap, b, "age", "=", v))

DoHaving == \E b \in BuilderIds, v \in BindValues :
  Called("having", b, having(heap, b, "total", ">", v))

DoJoin == \E b \in BuilderIds :
  Called("join", b, join(heap, b, "teams", "team_id", "=", "teams.id"))

DoOrderBy == \E b \in BuilderIds, d \in {"asc", "desc"} :
  Called("orderBy", b, orderBy(heap, b, "age", d))

DoGroupBy == \E b \in BuilderIds : Called("groupBy", b, groupBy(heap, b, "team_id"))

DoSelect == \E b \in BuilderIds, c \in {"id", "age"} :
  Called("select", b, select(heap, b, c))

DoDistinct == \E b \in BuilderIds : Called("distinct", b, distinct(heap, b))

DoLimit == \E b \in BuilderIds, n \in 1..2 : Called("limit", b, limit(heap, b, n))

DoOffset == \E b \in BuilderIds, n \in 1..2 : Called("offset", b, offset(heap, b, n))

DoWith == \E b \in BuilderIds, r \in Relations : Called("with", b, with(heap, b, r))

DoClone == \E b \in BuilderIds :
  /\ nclones < MaxClones
  /\ heap' = clone(heap, b)
  /\ lastOp' = [op |-> "clone", target |-> Len(heap.builders) + 1, source |-> b]
  /\ nclones' = nclones + 1
  /\ UNCHANGED <<nops, qvars, mvars, wvars, cvars>>

---------------------------------------------------------------------------
(* Rows, model records and the adapter *)

AttrNames == {"id", "age"}
KeyName == "id"
AdapterErrors == {"ECONNRESET", "ESYNTAX"}

Row(i) == [id |-> i, age |-> 1 + (i % 2)]
Rows(n) == [i \in 1..n |-> Row(i)]

Min(a, b) == IF a < b THEN a ELSE b

\* The rows a query state selects before LIMIT/OFFSET: the i-th where clause
\* compares its column with the i-th binding (joins bind nothing).
Matching(q) ==
  SelectSeq(table, LAMBDA row :
    \A i \in 1..Len(q._wheres) : row[q._wheres[i].column] = getBindings(q)[i])

\* adapter.select(sql, bindings): the matching rows after OFFSET and LIMIT.
adapterSelect(q) ==
  LET rows == Matching(q)
      off == IF q._offset = <<>> THEN 0 ELSE q._offset[1]
      last == IF q._limit = <<>> THEN Len(rows) ELSE Min(Len(rows), off + q._limit[1])
  IN SubSeq(rows, off + 1, last)

\* The count query: an aggregate over the where state.
adapterCount(q) == Len(Matching(q))

\* new ModelClass(attributes): a record that does not exist yet and has no
\* baseline (every original value undefined, written 0).
ModelClass(model, attributes, oid) ==
  [model |-> model, oid |-> oid, attributes |-> attributes,
   original |-> [k \in AttrNames |-> 0], exists |-> FALSE]

\* syncOriginal(): the baseline becomes the current attributes.
syncOriginal(instance) == [instance EXCEPT !.original = instance.attributes]

\* A record is dirty on a key iff attributes[key] !== original[key].
getDirty(instance) ==
  {k \in AttrNames : instance.attributes[k] # instance.original[k]}

\* A newModelInstance that leaves the baseline unsynced.
newModelInstanceUnsynced(model, attributes, exists, oid) ==
  [ModelClass(model, attributes, oid) EXCEPT !.exists = exists]

\* newModelInstance(attributes, exists): constructs the builder's model class,
\* sets exists, syncs the baseline.  oid is the identity of the new object.
newModelInstance(model, attributes, exists, oid) ==
  LET instance == ModelClass(model, attributes, oid) IN
  syncOriginal([instance EXCEPT !.exists = exists])

\* hydrate(items): one new instance per row, in order; made objects so far.
hydrate(model, items, made) ==
  [i \in 1..Len(items) |-> newModelInstance(model, items[i], TRUE, made + i)]

---------------------------------------------------------------------------
(* Promises and operations *)

NoMeta == [total |-> 0, perPage |-> 0, currentPage |-> 0, lastPage |-> 0,
           from |-> 0, to |-> 0]
NoOp == [name |-> "none", perPage |-> 0, page |-> 0, count |-> 0, id |-> 0]

Pending == [state |-> "pending", kind |-> "none", models |-> <<>>,
            meta |-> NoMeta, error |-> ""]
Resolved(kind, models, meta) ==
  [state |-> "resolved", kind |-> kind, models |-> models, meta |-> meta,
   error |-> ""]
Rejected(e) == [state |-> "rejected", kind |-> "none", models |-> <<>>,
                meta |-> NoMeta, error |-> e]

\* The receiver is builder 1; a clone made by paginate or chunk is builder 2
\* and is garbage once its query has settled.
This == 1
Temp == 2
DropTemps(h) == [builders |-> SubSeq(h.builders, 1, 1),
                 arrays |-> SubSeq(h.arrays, 1, 8)]

\* Hands the query of builder b of heap h to the adapter.
Send(kind, h, b) ==
  /\ inflight' = <<[kind |-> kind, q |-> View(h, b)]>>
  /\ queries' = Append(queries, [kind |-> kind, offset |-> View(h, b)._offset,
                                 limit |-> View(h, b)._limit])

Settle(r) ==
  /\ result' = r
  /\ constructed' = constructed + Len(r.models)
  /\ pc' = "done"
  /\ inflight' = <<>>

Begin(o) ==
  /\ pc = "idle"
  /\ op' = o
  /\ result' = Pending

QueryIdle ==
  /\ pc = "idle" /\ op = NoOp /\ inflight = <<>> /\ total = 0 /\ page = 0
  /\ queries = <<>> /\ cbLog = <<>> /\ lastRet = "none" /\ result = Pending
  /\ thrown = "" /\ constructed = 0

---------------------------------------------------------------------------
(* get(), first(), find(id) *)

\* get(): const results = await super.get()
StartGet ==
  /\ Begin([NoOp EXCEPT !.name = "get"])
  /\ Send("select", heap, This)
  /\ pc' = "get"
  /\ UNCHANGED <<bvars, table, total, page, cbLog, lastRet, thrown, constructed>>
  /\ UNCHANGED <<mvars, wvars, cvars>>

\* ... return this.hydrate(results)
GetResolve ==
  /\ pc = "get"
  /\ Settle(Resolved("list",
            hydrate(inflight[1].q.model, adapterSelect(inflight[1].q), constructed),
            NoMeta))
  /\ UNCHANGED <<bvars, table, op, total, page, queries, cbLog, lastRet, thrown>>
  /\ UNCHANGED <<mvars, wvars, cvars>>

\* A first() that hands on whatever super.first() gave.
firstResultUnchecked(model, r, made) ==
  IF r.kind = "row"
  THEN Resolved("model", <<newModelInstance(model, r.row[1], TRUE, made + 1)>>, NoMeta)
  ELSE Resolved(r.kind, <<>>, NoMeta)

\* first(), after super.first() gave r (a row, or null or undefined for no
\* row): if (!result) return null; return this.newModelInstance(result, true).
firstResult(model, r, made) ==
  IF r.kind # "row"
  THEN Resolved("null", <<>>, NoMeta)
  ELSE Resolved("model", <<newModelInstance(model, r.row[1], TRUE, made + 1)>>, NoMeta)

\* first(): const result = await super.first()
StartFirst ==
  /\ Begin([NoOp EXCEPT !.name = "first"])
  /\ Send("first", heap, This)
  /\ pc' = "first"
  /\ UNCHANGED <<bvars, table, total, page, cbLog, lastRet, thrown, constructed>>
  /\ UNCHANGED <<mvars, wvars, cvars>>

\* A find that puts its where clause on a clone and leaves the receiver.
StartFindOnClone ==
  /\ nops < MaxOps
  /\ \E id \in BindValues :
       /\ Begin([NoOp EXCEPT !.name = "find", !.id = id])
       /\ heap' = where(clone(DropTemps(heap), This), Temp, KeyName, "=", id)
       /\ lastOp' = [op |-> "find", target |-> Temp, source |-> This]
  /\ nops' = nops + 1
  /\ Send("first", heap', Temp)
  /\ pc' = "first"
  /\ UNCHANGED <<nclones, table, total, page, cbLog, lastRet, thrown, constructed>>
  /\ UNCHANGED <<mvars, wvars, cvars>>

\* find(id): this.where(keyName, '=', id).first()
StartFind ==
  /\ nops < MaxOps
  /\ \E id \in BindValues :
       /\ Begin([NoOp EXCEPT !.name = "find", !.id = id])
       /\ heap' = where(heap, This, KeyName, "=", id)
       /\ lastOp' = [op |-> "find", target |-> This, source |-> 0]
  /\ nops' = nops + 1
  /\ Send("first", heap', This)
  /\ pc' = "first"
  /\ UNCHANGED <<nclones, table, total, page, cbLog, lastRet, thrown, constructed>>
  /\ UNCHANGED <<mvars, wvars, cvars>>

\* super.first() settles: the first selected row, or the nothing-found
\* value, which the query builder may give as null or as undefined.
FirstResolve ==
  /\ pc = "first"
  /\ LET rows == adapterSelect([inflight[1].q EXCEPT !._limit = <<1>>]) IN
     \E r \in (IF rows = <<>>
                THEN {[kind |-> "null", row |-> <<>>], [kind |-> "undefined", row |-> <<>>]}
                ELSE {[kind |-> "row", row |-> <<rows[1]>>]}) :
       Settle(firstResult(inflight[1].q.model, r, constructed))
  /\ UNCHANGED <<bvars, table, op, total, page, queries, cbLog, lastRet, thrown>>
  /\ UNCHANGED <<mvars, wvars, cvars>>

---------------------------------------------------------------------------
(* paginate(perPage, page) *)

\* Math.ceil(total / perPage)
ceilDiv(a, b) == IF a % b = 0 THEN a \div b ELSE (a \div b) + 1

\* A paginate that rounds lastPage down and does not cap to.
paginateMetaUncapped(tot, perPage, pg) ==
  LET off == (pg - 1) * perPage IN
  [total |-> tot, perPage |-> perPage, currentPage |-> pg,
   lastPage |-> tot \div perPage,
   from |-> IF tot > 0 THEN off + 1 ELSE 0,
   to |-> off + perPage]

\* The numbers paginate returns beside data.
paginateMeta(tot, perPage, pg) ==
  LET off == (pg - 1) * perPage IN
  [total |-> tot, perPage |-> perPage, currentPage |-> pg,
   lastPage |-> ceilDiv(tot, perPage),
   from |-> IF tot > 0 THEN off + 1 ELSE 0,
   to |-> Min(off + perPage, tot)]

\* const total = await this.clone().count()
StartPaginate ==
  /\ \E perPage \in 1..MaxPerPage, pg \in 1..MaxPage :
       Begin([NoOp EXCEPT !.name = "paginate", !.perPage = perPage, !.page = pg])
  /\ heap' = clone(heap, This)
  /\ Send("count", heap', Temp)
  /\ pc' = "pag_count"
  /\ UNCHANGED <<lastOp, nops, nclones, table, total, page, cbLog, lastRet,
                 thrown, constructed>>
  /\ UNCHANGED <<mvars, wvars, cvars>>

\* const offset = (page - 1) * perPage;
\* const data = await this.clone().offset(offset).limit(perPage).get()
PagCountResolve ==
  /\ pc = "pag_count"
  /\ total' = adapterCount(inflight[1].q)
  /\ heap' = limit(offset(clone(DropTemps(heap), This), Temp,
                          (op.page - 1) * op.perPage), Temp, op.perPage)
  /\ Send("select", heap', Temp)
  /\ pc' = "pag_data"
  /\ UNCHANGED <<lastOp, nops, nclones, table, op, page, cbLog, lastRet, result,
                 thrown, constructed>>
  /\ UNCHANGED <<mvars, wvars, cvars>>

\* A paginate that takes total from the table as the page query finds it.
PagDataResolveRecounting ==
  /\ pc = "pag_data"
  /\ Settle(Resolved("page",
            hydrate(inflight[1].q.model, adapterSelect(inflight[1].q), constructed),
            paginateMeta(adapterCount(inflight[1].q), op.perPage, op.page)))
  /\ heap' = DropTemps(heap)
  /\ UNCHANGED <<lastOp, nops, nclones, table, op, total, page, queries, cbLog,
                 lastRet, thrown>>
  /\ UNCHANGED <<mvars, wvars, cvars>>

\* ... return {data, total, perPage, currentPage, lastPage, from, to}
PagDataResolve ==
  /\ pc = "pag_data"
  /\ Settle(Resolved("page",
            hydrate(inflight[1].q.model, adapterSelect(inflight[1].q), constructed),
            paginateMeta(total, op.perPage, op.page)))
  /\ heap' = DropTemps(heap)
  /\ UNCHANGED <<lastOp, nops, nclones, table, op, total, page, queries, cbLog,
                 lastRet, thrown>>
  /\ UNCHANGED <<mvars, wvars, cvars>>

---------------------------------------------------------------------------
(* chunk(count, callback) *)

\* A page query that starts one page too far.
chunkQuerySkipping(h, pg, count) ==
  limit(offset(clone(DropTemps(h), This), Temp, pg * count), Temp, count)

\* A page query that sets offset and limit on the receiver and clones after.
chunkQueryOnReceiver(h, pg, count) ==
  clone(limit(offset(DropTemps(h), This, (pg - 1) * count), This, count), This)

\* this.clone().offset((page - 1) * count).limit(count), as builder Temp.
chunkQuery(h, pg, count) ==
  limit(offset(clone(DropTemps(h), This), Temp, (pg - 1) * count), Temp, count)

\* A test that stops on every falsy return value.
shouldStopOnFalsy(ret) == ret \in {"false", "void"}

\* if (shouldContinue === false) break
shouldStop(ret) == ret = "false"

\* let page = 1; results = await this.clone().offset(..).limit(count).get()
StartChunk ==
  /\ \E count \in 1..MaxPerPage : Begin([NoOp EXCEPT !.name = "chunk", !.count = count])
  /\ page' = 1
  /\ heap' = chunkQuery(heap, 1, op'.count)
  /\ Send("select", heap', Temp)
  /\ pc' = "chunk_get"
  /\ UNCHANGED <<lastOp, nops, nclones, table, total, cbLog, lastRet, thrown,
                 constructed>>
  /\ UNCHANGED <<mvars, wvars, cvars>>

\* A chunk that drops from each page the rows it has already delivered.
ChunkGetResolveOnce ==
  /\ pc = "chunk_get"
  /\ LET fetched == adapterSelect(inflight[1].q)
         fresh == SelectSeq(fetched, LAMBDA row :
                    \A k \in 1..Len(cbLog) : \A i \in 1..Len(cbLog[k]) :
                      cbLog[k][i].attributes.id # row.id)
         results == hydrate(inflight[1].q.model, fresh, constructed) IN
       IF Len(results) = 0
       THEN /\ Settle(Resolved("void", <<>>, NoMeta))
            /\ UNCHANGED cbLog
       ELSE /\ cbLog' = Append(cbLog, results)
            /\ constructed' = constructed + Len(results)
            /\ pc' = "chunk_cb"
            /\ inflight' = <<>>
            /\ UNCHANGED result
  /\ heap' = DropTemps(heap)
  /\ UNCHANGED <<lastOp, nops, nclones, table, op, total, page, queries, lastRet,
                 thrown>>
  /\ UNCHANGED <<mvars, wvars, cvars>>

\* The page arrives: an empty page ends the loop, any other is handed to
\* the callback.
ChunkGetResolve ==
  /\ pc = "chunk_get"
  /\ LET results == hydrate(inflight[1].q.model, adapterSelect(inflight[1].q),
                            constructed) IN
       IF Len(results) = 0
       THEN /\ Settle(Resolved("void", <<>>, NoMeta))
            /\ UNCHANGED cbLog
       ELSE /\ cbLog' = Append(cbLog, results)
            /\ constructed' = constructed + Len(results)
            /\ pc' = "chunk_cb"
            /\ inflight' = <<>>
            /\ UNCHANGED result
  /\ heap' = DropTemps(heap)
  /\ UNCHANGED <<lastOp, nops, nclones, table, op, total, page, queries, lastRet,
                 thrown>>
  /\ UNCHANGED <<mvars, wvars, cvars>>

\* The callback's promise resolves with true, false or nothing.
ChunkCallbackReturns ==
  /\ pc = "chunk_cb"
  /\ \E ret \in {"true", "false", "void"} :
       /\ lastRet' = ret
       /\ IF shouldStop(ret)
          THEN /\ Settle(Resolved("void", <<>>, NoMeta))
               /\ UNCHANGED <<heap, page, queries>>
          ELSE /\ page' = page + 1
               /\ heap' = chunkQuery(heap, page + 1, op.count)
               /\ Send("select", heap', Temp)
               /\ pc' = "chunk_get"
               /\ UNCHANGED <<result, constructed>>
  /\ UNCHANGED <<lastOp, nops, nclones, table, op, total, cbLog, thrown>>
  /\ UNCHANGED <<mvars, wvars, cvars>>

---------------------------------------------------------------------------
(* The adapter rejects; the caller starts over *)

Awaiting == {"get", "first", "pag_count", "pag_data", "chunk_get"}

\* A paginate that takes a failed count for an empty table and goes on.
AdapterRejectsSwallowed ==
  /\ pc \in Awaiting
  /\ \E e \in AdapterErrors : thrown' = e
  /\ IF pc = "pag_count"
     THEN /\ total' = 0
          /\ heap' = limit(offset(clone(DropTemps(heap), This), Temp,
                                  (op.page - 1) * op.perPage), Temp, op.perPage)
          /\ Send("select", heap', Temp)
          /\ pc' = "pag_data"
          /\ UNCHANGED <<result, constructed>>
     ELSE /\ Settle(Rejected(thrown'))
          /\ heap' = DropTemps(heap)
          /\ UNCHANGED <<total, queries>>
  /\ UNCHANGED <<lastOp, nops, nclones, table, op, page, cbLog, lastRet>>
  /\ UNCHANGED <<mvars, wvars, cvars>>

\* The awaited adapter call rejects with e.  No operation catches: the
\* rejection becomes the operation's own and nothing after the await runs.
AdapterRejects ==
  /\ pc \in Awaiting
  /\ \E e \in AdapterErrors :
       /\ thrown' = e
       /\ Settle(Rejected(e))
  /\ heap' = DropTemps(heap)
  /\ UNCHANGED <<lastOp, nops, nclones, table, op, total, page, queries, cbLog,
                 lastRet>>
  /\ UNCHANGED <<mvars, wvars, cvars>>

\* The caller has the outcome and may call again.
Reset ==
  /\ pc = "done"
  /\ pc' = "idle" /\ op' = NoOp /\ inflight' = <<>> /\ total' = 0 /\ page' = 0
  /\ queries' = <<>> /\ cbLog' = <<>> /\ lastRet' = "none" /\ result' = Pending
  /\ thrown' = "" /\ constructed' = 0
  /\ UNCHANGED <<bvars, table>>
  /\ UNCHANGED <<mvars, wvars, cvars>>

\* Fluent calls on the receiver between operations.
QWhere == pc = "idle" /\ DoWhere
QLimit == pc = "idle" /\ DoLimit
QOffset == pc = "idle" /\ DoOffset

---------------------------------------------------------------------------
(* DatabaseManager *)

\* config.connections: the configured names and their adapter.
ConfigConnections == [main |-> [adapter |-> "sqlite"], replica |-> [adapter |-> "pg"]]
ConnNames == {"main", "replica", "ghost"}
AdapterNames == {"sqlite", "pg"}
NameOrder == <<"main", "replica", "ghost">>
\* The name argument; "" stands for a call without a name.
NameArgs == ConnNames \cup {""}

NoCall == [call |-> "none", arg |-> "", name |-> "", outcome |-> "none",
           conn |-> 0, error |-> "", tick |-> FALSE]
CallRecord(call, name, outcome, conn, error) ==
  [call |-> call, arg |-> name, name |-> name, outcome |-> outcome,
   conn |-> conn, error |-> error, tick |-> ~mgrLast.tick]
\* The record of a call made with the name argument arg.
WithArg(r, arg) == [r EXCEPT !.arg = arg]

\* const connectionName = name || this.config.default
connectionName(name) == IF name = "" THEN mgrDefault ELSE name

\* createConnection(name): throws when the name is not configured or its
\* adapter has no factory; otherwise calls the factory and wraps the adapter.
createConnection(name) ==
  IF name \notin DOMAIN ConfigConnections
  THEN [ok |-> FALSE, error |-> "not configured"]
  ELSE IF ConfigConnections[name].adapter \notin mgrFactories
       THEN [ok |-> FALSE, error |-> "not registered"]
       ELSE [ok |-> TRUE, error |-> ""]

MgrInit ==
  /\ mgrDefault \in ConnNames
  /\ mgrConnections = [n \in ConnNames |-> 0]
  /\ mgrFactories = {}
  /\ mgrLast = NoCall
  /\ mgrThrew = {}
  /\ nextConn = 0
  /\ factoryCalls = [n \in ConnNames |-> 0]
  /\ pending = <<>>

\* registerAdapter(name, factory)
RegisterAdapter ==
  /\ \E a \in AdapterNames :
       /\ a \notin mgrFactories
       /\ mgrFactories' = mgrFactories \cup {a}
  /\ UNCHANGED <<mgrDefault, mgrConnections, mgrLast, mgrThrew, nextConn,
                 factoryCalls, pending>>
  /\ UNCHANGED <<bvars, qvars, wvars, cvars>>

\* A connection() that makes the cache entry before the connection exists.
DoConnectionCachingFirst ==
  /\ \E name \in NameArgs :
       LET n == connectionName(name) IN
       IF mgrConnections[n] # 0
       THEN /\ mgrLast' = WithArg(CallRecord("connection", n, "returned",
                                  mgrConnections[n], ""), name)
            /\ UNCHANGED <<mgrConnections, mgrThrew, nextConn, factoryCalls>>
       ELSE /\ nextConn < MaxConns
            /\ nextConn' = nextConn + 1
            /\ mgrConnections' = [mgrConnections EXCEPT ![n] = nextConn + 1]
            /\ IF createConnection(n).ok
               THEN /\ factoryCalls' = [factoryCalls EXCEPT ![n] = @ + 1]
                    /\ mgrLast' = WithArg(CallRecord("connection", n, "returned",
                                          nextConn + 1, ""), name)
                    /\ UNCHANGED mgrThrew
               ELSE /\ mgrLast' = WithArg(CallRecord("connection", n, "threw",
                                          0,
                                             createConnection(n).error), name)
                    /\ mgrThrew' = mgrThrew \cup {n}
                    /\ UNCHANGED factoryCalls
  /\ UNCHANGED <<mgrDefault, mgrFactories, pending>>
  /\ UNCHANGED <<bvars, qvars, wvars, cvars>>

\* A connection() that creates a Connection on every call.
DoConnectionAlwaysCreating ==
  /\ \E name \in NameArgs :
       LET n == connectionName(name) IN
       IF createConnection(n).ok
       THEN /\ nextConn < MaxConns
            /\ nextConn' = nextConn + 1
            /\ factoryCalls' = [factoryCalls EXCEPT ![n] = @ + 1]
            /\ mgrConnections' = [mgrConnections EXCEPT ![n] = nextConn + 1]
            /\ mgrLast' = WithArg(CallRecord("connection", n, "returned",
                                  nextConn + 1, ""), name)
            /\ UNCHANGED mgrThrew
       ELSE /\ mgrLast' = WithArg(CallRecord("connection", n, "threw", 0,
                                  createConnection(n).error), name)
            /\ mgrThrew' = mgrThrew \cup {n}
            /\ UNCHANGED <<mgrConnections, nextConn, factoryCalls>>
  /\ UNCHANGED <<mgrDefault, mgrFactories, pending>>
  /\ UNCHANGED <<bvars, qvars, wvars, cvars>>

\* connection(name): the cached Connection of the name, or a new one that
\* is cached once createConnection has returned it.
DoConnection ==
  /\ \E name \in NameArgs :
       LET n == connectionName(name) IN
       IF mgrConnections[n] # 0
       THEN /\ mgrLast' = WithArg(CallRecord("connection", n, "returned",
                                  mgrConnections[n], ""), name)
            /\ UNCHANGED <<mgrConnections, mgrThrew, nextConn, factoryCalls>>
       ELSE IF createConnection(n).ok
            THEN /\ nextConn < MaxConns
                 /\ nextConn' = nextConn + 1
                 /\ factoryCalls' = [factoryCalls EXCEPT ![n] = @ + 1]
                 /\ mgrConnections' = [mgrConnections EXCEPT ![n] = nextConn + 1]
                 /\ mgrLast' = WithArg(CallRecord("connection", n, "returned",
                                       nextConn + 1, ""), name)
                 /\ UNCHANGED mgrThrew
            ELSE /\ mgrLast' = WithArg(CallRecord("connection", n, "threw", 0,
                                          createConnection(n).error), name)
                 /\ mgrThrew' = mgrThrew \cup {n}
                 /\ UNCHANGED <<mgrConnections, nextConn, factoryCalls>>
  /\ UNCHANGED <<mgrDefault, mgrFactories, pending>>
  /\ UNCHANGED <<bvars, qvars, wvars, cvars>>

\* disconnect(name): with a cached connection, await connection.disconnect();
\* without one, nothing.
DoDisconnect ==
  /\ \E name \in NameArgs :
       LET n == connectionName(name) IN
       /\ mgrLast' = WithArg(CallRecord("disconnect", n, "none",
                             mgrConnections[n], ""), name)
       /\ IF mgrConnections[n] # 0
          THEN /\ Len(pending) < MaxPending
               /\ pending' = Append(pending, [name |-> n, conn |-> mgrConnections[n]])
          ELSE UNCHANGED pending
  /\ UNCHANGED <<mgrDefault, mgrConnections, mgrFactories, mgrThrew, nextConn,
                 factoryCalls>>
  /\ UNCHANGED <<bvars, qvars, wvars, cvars>>

\* disconnectAll(): disconnect(name) for every key of the cache.
DoDisconnectAll ==
  /\ LET keys == SelectSeq(NameOrder, LAMBDA n : mgrConnections[n] # 0) IN
       /\ Len(pending) + Len(keys) <= MaxPending
       /\ pending' = pending \o [i \in 1..Len(keys) |->
                                   [name |-> keys[i], conn |-> mgrConnections[keys[i]]]]
  /\ mgrLast' = CallRecord("disconnectAll", "", "none", 0, "")
  /\ UNCHANGED <<mgrDefault, mgrConnections, mgrFactories, mgrThrew, nextConn,
                 factoryCalls>>
  /\ UNCHANGED <<bvars, qvars, wvars, cvars>>

RemoveAt(s, i) == SubSeq(s, 1, i - 1) \o SubSeq(s, i + 1, Len(s))

\* connection.disconnect() resolves: this.connections.delete(connectionName)
DisconnectResolves ==
  /\ \E i \in 1..Len(pending) :
       /\ mgrConnections' = [mgrConnections EXCEPT ![pending[i].name] = 0]
       /\ mgrLast' = CallRecord("disconnected", pending[i].name, "resolved",
                                pending[i].conn, "")
       /\ pending' = RemoveAt(pending, i)
  /\ UNCHANGED <<mgrDefault, mgrFactories, mgrThrew, nextConn, factoryCalls>>
  /\ UNCHANGED <<bvars, qvars, wvars, cvars>>

\* connection.disconnect() rejects: disconnect() rejects at the await and
\* the delete is not reached.
DisconnectRejects ==
  /\ \E i \in 1..Len(pending) :
       /\ mgrLast' = CallRecord("disconnected", pending[i].name, "rejected",
                                pending[i].conn, "disconnect failed")
       /\ pending' = RemoveAt(pending, i)
  /\ UNCHANGED <<mgrDefault, mgrConnections, mgrFactories, mgrThrew, nextConn,
                 factoryCalls>>
  /\ UNCHANGED <<bvars, qvars, wvars, cvars>>

\* setDefaultConnection(name)
SetDefaultConnection ==
  /\ \E n \in ConnNames :
       /\ n # mgrDefault
       /\ mgrDefault' = n
  /\ UNCHANGED <<mgrConnections, mgrFactories, mgrLast, mgrThrew, nextConn,
                 factoryCalls, pending>>
  /\ UNCHANGED <<bvars, qvars, wvars, cvars>>

MgrNext ==
  \/ RegisterAdapter \/ DoConnection \/ DoDisconnect \/ DoDisconnectAll
  \/ DisconnectResolves \/ DisconnectRejects \/ SetDefaultConnection

\* A manager nobody uses, for the specifications of the builder.
MgrUnused ==
  /\ mgrDefault = "main"
  /\ mgrConnections = [n \in ConnNames |-> 0]
  /\ mgrFactories = {} /\ mgrLast = NoCall /\ mgrThrew = {} /\ nextConn = 0
  /\ factoryCalls = [n \in ConnNames |-> 0] /\ pending = <<>>

\* A builder heap nobody uses, for the specification of the manager.
BuilderUnused ==
  /\ heap = EmptyHeap
  /\ lastOp = [op |-> "new", target |-> 0, source |-> 0]
  /\ nops = 0 /\ nclones = 0 /\ table = <<>>

\* No other writer, for the specifications without one.
WriterUnused == gone = {} /\ born = {}

\* The call and the result of a collection nobody has called yet.
NoCollOp == [name |-> "none", key |-> "", keys |-> {}, size |-> 0]
NoLoop == [at |-> "out", i |-> 0]
NoCollResult == [kind |-> "none", items |-> <<>>, chunks |-> <<>>,
                 num |-> 0, den |-> 1]

\* A collection nobody uses, for the specifications of the builder.
CollectionUnused ==
  /\ build = "native" /\ coll = <<>> /\ cop = NoCollOp /\ cres = NoCollResult
  /\ chunkLoop = NoLoop

SpecManagerInit ==
  MgrInit /\ BuilderUnused /\ QueryIdle /\ WriterUnused /\ CollectionUnused
SpecManager == SpecManagerInit /\ [][MgrNext]_vars

---------------------------------------------------------------------------
(* Specifications of the builder *)

QueryInit ==
  /\ BuilderInit
  /\ \E n \in 0..MaxRows : table = Rows(n)
  /\ QueryIdle

QueryNext ==
  \/ QWhere \/ QLimit \/ QOffset
  \/ StartGet \/ GetResolve
  \/ StartFirst \/ StartFind \/ FirstResolve
  \/ StartPaginate \/ PagCountResolve \/ PagDataResolve
  \/ StartChunk \/ ChunkGetResolve \/ ChunkCallbackReturns
  \/ AdapterRejects \/ Reset

SpecQueryInit == QueryInit /\ MgrUnused /\ WriterUnused /\ CollectionUnused
SpecQuery == SpecQueryInit /\ [][QueryNext]_vars

---------------------------------------------------------------------------
(* The builder alone: fluent calls and clones, no query running *)

BuilderNext ==
  \/ DoWhere \/ DoHaving \/ DoJoin \/ DoOrderBy \/ DoGroupBy \/ DoSelect
  \/ DoDistinct \/ DoLimit \/ DoOffset \/ DoWith \/ DoClone

SpecBuilderInit ==
  /\ BuilderInit /\ table = <<>> /\ QueryIdle /\ MgrUnused
  /\ WriterUnused /\ CollectionUnused
SpecBuilder == SpecBuilderInit /\ [][BuilderNext]_vars

---------------------------------------------------------------------------
(* Another writer on the same table.  The adapter gives no transaction     *)
(* around the queries of one paginate or chunk call, so a committed delete *)
(* or insert can fall between any two of them.  Without ORDER BY the       *)
(* result order is the table order; a new row lands first or last in it.   *)

\* The key of the next inserted row: above every key the table has held.
NextKey == Len(table) + Cardinality(gone) + 1

\* Another writer's DELETE commits before the adapter answers the query in
\* flight (a write during the callback is the same write seen by the next
\* page query).
WriterDeletes ==
  /\ inflight # <<>>
  /\ Cardinality(gone) + Cardinality(born) < MaxWrites
  /\ \E i \in 1..Len(table) :
       /\ table' = RemoveAt(table, i)
       /\ gone' = gone \cup {table[i].id}
  /\ UNCHANGED <<bvars, pc, op, inflight, total, page, queries, cbLog, lastRet,
                 result, thrown, constructed, born>>
  /\ UNCHANGED <<mvars, cvars>>

\* Another writer's INSERT commits before the adapter answers the query in
\* flight.
WriterInserts ==
  /\ inflight # <<>>
  /\ Cardinality(gone) + Cardinality(born) < MaxWrites
  /\ \E i \in {1, Len(table) + 1} :
       table' = InsertAt(table, i, Row(NextKey))
  /\ born' = born \cup {NextKey}
  /\ UNCHANGED <<bvars, pc, op, inflight, total, page, queries, cbLog, lastRet,
                 result, thrown, constructed, gone>>
  /\ UNCHANGED <<mvars, cvars>>

\* One paginate or chunk call of a builder whose table another writer
\* changes meanwhile.
ConcurrentNext ==
  \/ StartPaginate \/ PagCountResolve \/ PagDataResolve
  \/ StartChunk \/ ChunkGetResolve \/ ChunkCallbackReturns
  \/ WriterDeletes \/ WriterInserts

\* A builder of the users model without clauses over a table of any size.
ConcurrentInit ==
  /\ heap = Constructor(EmptyHeap, "db", "users")
  /\ lastOp = [op |-> "new", target |-> 1, source |-> 0]
  /\ nops = 0 /\ nclones = 0
  /\ \E n \in 0..MaxRows : table = Rows(n)
  /\ QueryIdle /\ MgrUnused /\ WriterUnused /\ CollectionUnused

SpecConcurrent == ConcurrentInit /\ [][ConcurrentNext]_vars

---------------------------------------------------------------------------
(* EnsembleCollection: class EnsembleCollection<T> extends Array<T>.       *)
(* An attribute value is a tagged record: a number n, undefined, null or   *)
(* a non-numeric string.  A record of the collection has an identity (its  *)
(* position in the collection the caller built) and attributes.            *)

Num(n) == [t |-> "number", n |-> n]
Undefined == [t |-> "undefined", n |-> 0]
Null == [t |-> "null", n |-> 0]
Abc == [t |-> "string", n |-> 0]
NaN == [t |-> "NaN", n |-> 0]

AttrValues == {Num(1), Num(2), Undefined, Null, Abc}
ItemAttributes == [id : {Num(1), Num(2)}, age : AttrValues]
\* The key argument; "" stands for a call without a key.
KeyArgs == AttrNames \cup {""}
\* The lists of keys or values handed to the set-style filters.
KeyLists == SUBSET {Num(1), Num(2)}

\* How the build constructs the class: "native" keeps the ES2015 class, so
\* super(...items) spreads its argument; "downlevel" is the ES5 output,
\* whose spread helper turns a non-array argument into no arguments.
Builds == {"native", "downlevel"}

\* item.getKey(): attributes[primaryKeyName]
getKey(item) == item.attributes[KeyName]
\* item[key]: the attribute of that name
prop(item, key) == item.attributes[key]

\* What a call on the collection gives back.
NumberResult(num, den) == [NoCollResult EXCEPT !.kind = "number", !.num = num, !.den = den]
NaNResult == [NoCollResult EXCEPT !.kind = "NaN"]
UndefinedResult == [NoCollResult EXCEPT !.kind = "undefined"]
CollectionResult(items) == [NoCollResult EXCEPT !.kind = "collection", !.items = items]
TypeErrorResult == [NoCollResult EXCEPT !.kind = "TypeError"]

\* Array.prototype.filter, map and slice build their result with
\* ArraySpeciesCreate: new this.constructor(length).  The constructor takes
\* the length for items and runs super(...items): spreading a number throws
\* a TypeError in the native build and gives an empty array downlevel.
ArraySpeciesCreate(length) ==
  IF build = "native" THEN [threw |-> TRUE, items |-> <<>>]
  ELSE [threw |-> FALSE, items |-> <<>>]

\* value || 0: a falsy value (undefined, null, 0) becomes 0.
orZero(v) == IF v.t \in {"undefined", "null"} \/ v = Num(0) THEN Num(0) ELSE v
\* Number(value): a number is itself, a non-numeric string is NaN.
Number(v) == IF v.t = "number" THEN v ELSE IF v.t = "null" THEN Num(0) ELSE NaN
\* a + b on numbers: NaN when either is NaN.
add(a, b) == IF a.t = "NaN" \/ b.t = "NaN" THEN NaN ELSE Num(a.n + b.n)

\* this.reduce((sum, item) => sum + Number(item[key] || 0), 0) over the
\* first n records.
RECURSIVE reduceSum(_, _, _)
reduceSum(c, key, n) ==
  IF n = 0 THEN Num(0)
  ELSE add(reduceSum(c, key, n - 1), Number(orZero(prop(c[n], key))))

\* sum(key)
sum(c, key) ==
  IF key = "" THEN NumberResult(0, 1)
  ELSE LET acc == reduceSum(c, key, Len(c)) IN
       IF acc.t = "NaN" THEN NaNResult ELSE NumberResult(acc.n, 1)

\* avg(key): 0 when empty, else sum(key) / length (kept as the fraction).
avg(c, key) ==
  IF Len(c) = 0 THEN NumberResult(0, 1)
  ELSE IF sum(c, key).kind = "NaN" THEN NaNResult
       ELSE NumberResult(sum(c, key).num, Len(c))

\* Math.min(...values) / Math.max(...values) of a non-empty list.
mathMin(values) ==
  IF \E i \in 1..Len(values) : values[i].t = "NaN" THEN NaNResult
  ELSE NumberResult(CHOOSE m \in {values[i].n : i \in 1..Len(values)} :
                      \A i \in 1..Len(values) : m <= values[i].n, 1)
mathMax(values) ==
  IF \E i \in 1..Len(values) : values[i].t = "NaN" THEN NaNResult
  ELSE NumberResult(CHOOSE m \in {values[i].n : i \in 1..Len(values)} :
                      \A i \in 1..Len(values) : m >= values[i].n, 1)

\* this.map((item) => Number(item[key] || 0)): the result array is made by
\* ArraySpeciesCreate(this, length).
mapNumbers(c, key) ==
  IF ArraySpeciesCreate(Len(c)).threw THEN [threw |-> TRUE, items |-> <<>>]
  ELSE [threw |-> FALSE,
        items |-> [i \in 1..Len(c) |-> Number(orZero(prop(c[i], key)))]]

\* min(key): undefined when empty or without key.
min(c, key) ==
  IF Len(c) = 0 \/ key = "" THEN UndefinedResult
  ELSE IF mapNumbers(c, key).threw THEN TypeErrorResult
       ELSE mathMin(mapNumbers(c, key).items)

\* max(key): undefined when empty or without key.
max(c, key) ==
  IF Len(c) = 0 \/ key = "" THEN UndefinedResult
  ELSE IF mapNumbers(c, key).threw THEN TypeErrorResult
       ELSE mathMax(mapNumbers(c, key).items)

---------------------------------------------------------------------------
(* sortBy, sortByDesc *)

\* a < b of the language on attribute values: both sides become numbers
\* (null is 0, undefined and a non-numeric string against a number are
\* NaN) and a comparison with NaN is false; two equal strings are not less.
lessThan(a, b) ==
  /\ Number(a).t = "number" /\ Number(b).t = "number"
  /\ a.t # "string" /\ b.t # "string"
  /\ Number(a).n < Number(b).n

\* A comparator that never reports a tie.
compareNoTie(cmp, a, b) ==
  IF cmp.kind = "key"
  THEN (IF lessThan(prop(a, cmp.key), prop(b, cmp.key)) THEN -1 ELSE 1)
  ELSE IF cmp.kind = "desc"
       THEN (IF lessThan(prop(a, cmp.key), prop(b, cmp.key)) THEN 1 ELSE -1)
       ELSE prop(b, cmp.key).n - prop(a, cmp.key).n

\* The three comparators: sortBy's own for a key (-1, 1, 0), sortByDesc's
\* (1, -1, 0), and a caller's callback, here (a, b) => b[key] - a[key].
compare(cmp, a, b) ==
  IF cmp.kind = "key"
  THEN (IF lessThan(prop(a, cmp.key), prop(b, cmp.key)) THEN -1
        ELSE IF lessThan(prop(b, cmp.key), prop(a, cmp.key)) THEN 1 ELSE 0)
  ELSE IF cmp.kind = "desc"
       THEN (IF lessThan(prop(a, cmp.key), prop(b, cmp.key)) THEN 1
             ELSE IF lessThan(prop(b, cmp.key), prop(a, cmp.key)) THEN -1 ELSE 0)
       ELSE prop(b, cmp.key).n - prop(a, cmp.key).n

\* Array.prototype.sort(comparator) with a consistent comparator: the
\* stable order (ECMAScript 2019), built by inserting each element after
\* every element the comparator does not put behind it.
insertSorted(sorted, x, cmp) ==
  InsertAt(sorted,
           Cardinality({i \in 1..Len(sorted) : compare(cmp, sorted[i], x) <= 0}) + 1,
           x)
RECURSIVE arraySort(_, _)
arraySort(items, cmp) ==
  IF items = <<>> THEN <<>>
  ELSE insertSorted(arraySort(SubSeq(items, 1, Len(items) - 1), cmp),
                    items[Len(items)], cmp)

\* The comparator orders the values of the collection consistently: every
\* value of the key is a number.  Otherwise the order sort() leaves is
\* implementation-defined.
Comparable(c, key) == \A i \in 1..Len(c) : prop(c[i], key).t = "number"

\* sortBy(keyOrCallback): const sorted = [...this]; sorted.sort(..);
\* return new EnsembleCollection(sorted).  this is the receiver afterwards.
sortBy(c, cmp) == [this |-> c, result |-> CollectionResult(arraySort(c, cmp))]

\* sortByDesc(key): this.sortBy(descending comparator)
sortByDesc(c, key) == sortBy(c, [kind |-> "desc", key |-> key])

---------------------------------------------------------------------------
(* except, only, whereIn, whereNotIn *)

\* this.filter(predicate) / super.filter(predicate): the result array is
\* made by ArraySpeciesCreate(this, 0); new EnsembleCollection(filtered).
\* keep[i] is what the predicate returns for the i-th record.
filter(c, keep) ==
  IF ArraySpeciesCreate(0).threw THEN TypeErrorResult
  ELSE LET kept == SelectSeq([i \in 1..Len(c) |-> i], LAMBDA i : keep[i])
       IN CollectionResult([j \in 1..Len(kept) |-> c[kept[j]]])

\* except(keys)
except(c, keys) == filter(c, [i \in 1..Len(c) |-> getKey(c[i]) \notin keys])
\* only(keys)
only(c, keys) == filter(c, [i \in 1..Len(c) |-> getKey(c[i]) \in keys])
\* whereIn(key, values)
whereIn(c, key, values) ==
  filter(c, [i \in 1..Len(c) |-> prop(c[i], key) \in values])
\* whereNotIn(key, values)
whereNotIn(c, key, values) ==
  filter(c, [i \in 1..Len(c) |-> prop(c[i], key) \notin values])

---------------------------------------------------------------------------
(* Calls on a collection.  Every call leaves the receiver's records as     *)
(* they are unless its code says otherwise.                                *)

\* new EnsembleCollection(items): n records, the i-th with identity i.
CollectionInit ==
  /\ build \in Builds
  /\ \E n \in 0..MaxLen : \E attrs \in [1..n -> ItemAttributes] :
       coll = [i \in 1..n |-> [oid |-> i, attributes |-> attrs[i]]]
  /\ cop = NoCollOp
  /\ cres = NoCollResult
  /\ chunkLoop = NoLoop

\* The caller's one call on the collection, name(key), returned r.
Returns(name, key, keys, r) ==
  /\ cop = NoCollOp
  /\ cop' = [NoCollOp EXCEPT !.name = name, !.key = key, !.keys = keys]
  /\ cres' = r
  /\ UNCHANGED chunkLoop
  /\ UNCHANGED <<bvars, qvars, mvars, wvars>>

DoSum == \E key \in KeyArgs :
  Returns("sum", key, {}, sum(coll, key)) /\ UNCHANGED <<build, coll>>

DoAvg == \E key \in KeyArgs :
  Returns("avg", key, {}, avg(coll, key)) /\ UNCHANGED <<build, coll>>

DoMin == \E key \in KeyArgs :
  Returns("min", key, {}, min(coll, key)) /\ UNCHANGED <<build, coll>>

DoMax == \E key \in KeyArgs :
  Returns("max", key, {}, max(coll, key)) /\ UNCHANGED <<build, coll>>

DoSortBy == \E key \in AttrNames :
  /\ Comparable(coll, key)
  /\ Returns("sortBy", key, {}, sortBy(coll, [kind |-> "key", key |-> key]).result)
  /\ coll' = sortBy(coll, [kind |-> "key", key |-> key]).this
  /\ UNCHANGED build

DoSortByCallback == \E key \in AttrNames :
  /\ Comparable(coll, key)
  /\ Returns("sortByCallback", key, {},
             sortBy(coll, [kind |-> "callback", key |-> key]).result)
  /\ coll' = sortBy(coll, [kind |-> "callback", key |-> key]).this
  /\ UNCHANGED build

DoSortByDesc == \E key \in AttrNames :
  /\ Comparable(coll, key)
  /\ Returns("sortByDesc", key, {}, sortByDesc(coll, key).result)
  /\ coll' = sortByDesc(coll, key).this
  /\ UNCHANGED build

DoExcept == \E keys \in KeyLists :
  Returns("except", "", keys, except(coll, keys)) /\ UNCHANGED <<build, coll>>

DoOnly == \E keys \in KeyLists :
  Returns("only", "", keys, only(coll, keys)) /\ UNCHANGED <<build, coll>>

DoWhereIn == \E key \in AttrNames, values \in KeyLists :
  Returns("whereIn", key, values, whereIn(coll, key, values))
  /\ UNCHANGED <<build, coll>>

DoWhereNotIn == \E key \in AttrNames, values \in KeyLists :
  Returns("whereNotIn", key, values, whereNotIn(coll, key, values))
  /\ UNCHANGED <<build, coll>>

CollectionNext ==
  \/ DoSum \/ DoAvg \/ DoMin \/ DoMax
  \/ DoSortBy \/ DoSortByCallback \/ DoSortByDesc
  \/ DoExcept \/ DoOnly \/ DoWhereIn \/ DoWhereNotIn

SpecCollectionInit ==
  CollectionInit /\ BuilderUnused /\ QueryIdle /\ MgrUnused /\ WriterUnused
SpecCollection == SpecCollectionInit /\ [][CollectionNext]_vars

(* chunkModels(size), one loop iteration at a time *)

\* The sizes chunkModels is called with.
Sizes == -1 .. MaxLen
\* Chunks the model records of a call: one more than any terminating call
\* on a collection of MaxLen records pushes.  A loop that goes on after
\* that many is followed without recording more.
MaxChunks == MaxLen + 1

\* Array.prototype.slice(start, end) on the collection: negative arguments
\* count from the end, the result is constructed through the species
\* constructor with the number of elements as its argument.
slice(c, start, end) ==
  LET len == Len(c)
      k == IF start < 0 THEN (IF len + start > 0 THEN len + start ELSE 0)
           ELSE (IF start < len THEN start ELSE len)
      final == IF end < 0 THEN (IF len + end > 0 THEN len + end ELSE 0)
               ELSE (IF end < len THEN end ELSE len)
      count == IF final - k > 0 THEN final - k ELSE 0
  IN IF ArraySpeciesCreate(count).threw THEN [threw |-> TRUE, items |-> <<>>]
     ELSE [threw |-> FALSE, items |-> [j \in 1..count |-> c[k + j]]]

\* chunkModels(size) is called: chunks = [], i = 0.
DoChunkModels ==
  /\ cop = NoCollOp
  /\ \E size \in Sizes : cop' = [NoCollOp EXCEPT !.name = "chunkModels", !.size = size]
  /\ cres' = NoCollResult
  /\ chunkLoop' = [at |-> "test", i |-> 0]
  /\ UNCHANGED <<build, coll>>
  /\ UNCHANGED <<bvars, qvars, mvars, wvars>>

\* The loop condition i < this.length holds: into the body.
ChunkModelsEnters ==
  /\ chunkLoop.at = "test"
  /\ chunkLoop.i < Len(coll)
  /\ chunkLoop' = [chunkLoop EXCEPT !.at = "body"]
  /\ UNCHANGED <<build, coll, cop, cres>>
  /\ UNCHANGED <<bvars, qvars, mvars, wvars>>

\* The body and the increment:
\* chunks.push(new EnsembleCollection(this.slice(i, i + size))); i += size.
\* A TypeError of slice leaves chunkModels.
ChunkModelsIterates ==
  /\ chunkLoop.at = "body"
  /\ LET s == slice(coll, chunkLoop.i, chunkLoop.i + cop.size)
         recording == Len(cres.chunks) < MaxChunks
     IN IF s.threw
        THEN cres' = TypeErrorResult /\ chunkLoop' = [chunkLoop EXCEPT !.at = "out"]
        ELSE /\ cres' = IF recording THEN [cres EXCEPT !.chunks = Append(@, s.items)]
                        ELSE cres
             /\ chunkLoop' = [at |-> "test",
                              i |-> IF recording THEN chunkLoop.i + cop.size
                                    ELSE chunkLoop.i]
  /\ UNCHANGED <<build, coll, cop>>
  /\ UNCHANGED <<bvars, qvars, mvars, wvars>>

\* The loop condition fails: return chunks.
ChunkModelsReturns ==
  /\ chunkLoop.at = "test"
  /\ ~(chunkLoop.i < Len(coll))
  /\ cres' = [cres EXCEPT !.kind = "chunks"]
  /\ chunkLoop' = [chunkLoop EXCEPT !.at = "out"]
  /\ UNCHANGED <<build, coll, cop>>
  /\ UNCHANGED <<bvars, qvars, mvars, wvars>>

ChunkModelsNext ==
  DoChunkModels \/ ChunkModelsEnters \/ ChunkModelsIterates \/ ChunkModelsReturns

\* A call that has started keeps running: the loop is synchronous code.
SpecChunkModels ==
  /\ SpecCollectionInit /\ [][ChunkModelsNext]_vars
  /\ WF_vars(ChunkModelsEnters) /\ WF_vars(ChunkModelsIterates)
  /\ WF_vars(ChunkModelsReturns)

---------------------------------------------------------------------------
(* Claims about clone() and compilation, checked under SpecBuilder.        *)

\* C1: a fluent call on one builder, made after a clone, changes no clause
\* list, bindings, limit, offset or eager-load registration of any other
\* builder: neither the receiver of clone() nor its clone sees the other's
\* mutations, and clone() itself leaves its receiver as it was.
C1_CloneNoAliasing ==
  [][\A x \in 1..Len(heap.builders) :
       x # lastOp'.target => View(heap', x) = View(heap, x)]_vars

\* C1 witness: a clone exists, the receiver then took a where() the clone
\* does not have.
C1_Witness ==
  /\ Len(heap.builders) >= 2
  /\ lastOp.op = "where" /\ lastOp.target = 1
  /\ Len(View(heap, 1)._wheres) > Len(View(heap, 2)._wheres)
  /\ Len(View(heap, 1)._bindings) > Len(View(heap, 2)._bindings)

\* C2: right after c = b.clone(), c has b's adapter and model and every
\* piece of c's query state equals b's, element for element.
C2_CloneEqualsReceiver ==
  lastOp.op = "clone" => View(heap, lastOp.target) = View(heap, lastOp.source)

\* C2 witness: a clone of a builder that holds a where clause, its binding
\* and an eager-load registration.
C2_Witness ==
  /\ lastOp.op = "clone"
  /\ View(heap, lastOp.source)._wheres # <<>>
  /\ View(heap, lastOp.source)._bindings # <<>>
  /\ View(heap, lastOp.source).eagerLoad # <<>>
  /\ View(heap, lastOp.target).model = View(heap, lastOp.source).model

---------------------------------------------------------------------------
(* Claims about paginate, chunk, hydration and failures, checked under     *)
(* SpecQuery, where no other writer changes the table.                     *)

\* The rows the receiver's where state selects, by key.
SelectedIds == [i \in 1..Len(Matching(View(heap, This))) |->
                  Matching(View(heap, This))[i].id]
IdsOf(models) == [i \in 1..Len(models) |-> models[i].attributes.id]

\* The least c with c * d >= n.
LeastCover(n, d) == CHOOSE c \in 0..n : c * d >= n /\ (c = 0 \/ (c - 1) * d < n)

\* C4: paginate(perPage, page) returns total (the count query's value),
\* perPage, currentPage = page, lastPage = ceil(total / perPage),
\* from = (page-1)*perPage + 1 and to = min(page*perPage, total) when
\* total > 0, from = to = 0 when total = 0; and on a page within range
\* from <= to and data holds to - from + 1 records.
C4_PaginateResult ==
  result.kind = "page" =>
    LET m == result.meta
        n == Len(SelectedIds)
    IN /\ m.total = n /\ m.perPage = op.perPage /\ m.currentPage = op.page
       /\ m.lastPage = LeastCover(n, op.perPage)
       /\ n > 0 => /\ m.from = (op.page - 1) * op.perPage + 1
                   /\ m.to <= op.page * op.perPage /\ m.to <= n
                   /\ (m.to = op.page * op.perPage \/ m.to = n)
       /\ n = 0 => m.from = 0 /\ m.to = 0
       /\ (1 <= op.page /\ op.page <= m.lastPage) =>
            /\ m.from <= m.to
            /\ Len(result.models) = m.to - m.from + 1
            /\ IdsOf(result.models) = SubSeq(SelectedIds, m.from, m.to)

\* C4 witness: 5 rows, paginate(2, 2): lastPage 3, from 3, to 4, 2 records.
C4_Witness ==
  /\ result.kind = "page"
  /\ result.meta = [total |-> 5, perPage |-> 2, currentPage |-> 2, lastPage |-> 3,
                    from |-> 3, to |-> 4]
  /\ Len(result.models) = 2

\* C5: with a callback that never returns false, chunk(size, callback)
\* hands the callback page k = rows (k-1)*size+1 .. min(k*size, N) of the
\* selected rows, in order, issues at most ceil(N/size) + 1 queries, and
\* ends resolved after exactly ceil(N/size) invocations.
C5_ChunkDeliversEveryRowOnce ==
  op.name = "chunk" =>
    LET n == Len(SelectedIds)
        pages == LeastCover(n, op.count)
    IN /\ \A k \in 1..Len(cbLog) :
            IdsOf(cbLog[k]) = SubSeq(SelectedIds, (k - 1) * op.count + 1,
                                     IF k * op.count < n THEN k * op.count ELSE n)
       /\ Len(cbLog) <= pages
       /\ Len(queries) <= pages + 1
       /\ (pc = "done" /\ result.state = "resolved" /\ lastRet # "false") =>
            /\ Len(cbLog) = pages
            /\ Len(queries) = pages + 1
            /\ Flatten([k \in 1..Len(cbLog) |-> IdsOf(cbLog[k])]) = SelectedIds

\* C5 witness: 5 rows, chunk(2, cb): three invocations of sizes 2, 2, 1,
\* then the empty fourth page ends the call.
C5_Witness ==
  /\ op.name = "chunk" /\ op.count = 2 /\ pc = "done" /\ result.state = "resolved"
  /\ lastRet # "false"
  /\ [k \in 1..Len(cbLog) |-> Len(cbLog[k])] = <<2, 2, 1>>
  /\ Len(queries) = 4

\* C6: when the callback returns false chunk resolves at once, with no
\* further query and no further invocation; on true or nothing chunk issues
\* the query of the next page.
C6_ChunkStopsOnlyOnFalse ==
  /\ [](lastRet = "false" =>
          /\ pc = "done" /\ result.state = "resolved" /\ inflight = <<>>
          /\ Len(queries) = Len(cbLog))
  /\ [][pc = "chunk_cb" /\ pc' # "chunk_cb" =>
          IF lastRet' = "false"
          THEN pc' = "done" /\ queries' = queries /\ cbLog' = cbLog
          ELSE /\ pc' = "chunk_get" /\ cbLog' = cbLog
               /\ queries' = Append(queries,
                    [kind |-> "select", offset |-> <<Len(cbLog) * op.count>>,
                     limit |-> <<op.count>>])]_vars

\* C6 witness: the callback returned false on its second page while rows
\* were left; chunk is resolved with two queries made.
C6_Witness ==
  /\ lastRet = "false" /\ pc = "done" /\ Len(cbLog) = 2
  /\ Len(SelectedIds) > 2 * op.count
  /\ Len(queries) = 2

\* Every model an operation has returned or handed to the callback.
Returned == Flatten(<<result.models>> \o cbLog)

\* C7: every returned model is a new instance of the builder's model whose
\* attributes are a selected row, exists is true, the baseline equals the
\* attributes and no attribute is dirty.
C7_HydratedModelsAreClean ==
  /\ \A i \in 1..Len(Returned) :
       LET m == Returned[i] IN
       /\ m.model = Builder(heap, This).model
       /\ m.exists
       /\ m.original = m.attributes
       /\ getDirty(m) = {}
       /\ \E j \in 1..Len(table) : table[j] = m.attributes
       /\ \A k \in 1..Len(Returned) : Returned[k].oid = m.oid => k = i
  /\ result.kind = "list" => IdsOf(result.models) =
       [i \in 1..Len(adapterSelect(View(heap, This))) |->
          adapterSelect(View(heap, This))[i].id]
  /\ constructed = Len(Returned)

\* C7 witness: get() has returned several records, first() one.
C7_Witness ==
  /\ result.kind = "list" /\ Len(result.models) >= 2
  /\ result.models[1].attributes = table[1]

\* C8: when no row matches, first() and find(id) resolve with null, get()
\* resolves with an empty list, and no model instance is constructed.
C8_NotFoundIsAValue ==
  (pc = "done" /\ thrown = "") =>
    /\ (op.name \in {"first", "find"}
        /\ adapterSelect([View(heap, This) EXCEPT !._limit = <<1>>]) = <<>>) =>
          /\ result = Resolved("null", <<>>, NoMeta)
          /\ constructed = 0
    /\ (op.name = "get" /\ adapterSelect(View(heap, This)) = <<>>) =>
          /\ result = Resolved("list", <<>>, NoMeta)
          /\ constructed = 0

\* C8 witness: find(id) on a non-empty table that has no row with that key.
C8_Witness ==
  /\ pc = "done" /\ op.name = "find" /\ table # <<>>
  /\ result.state = "resolved" /\ result.kind = "null"

\* C9: once an adapter call has rejected, the operation is rejected with
\* that same error and is over: no query is issued after the failed one,
\* a failed count is paginate's only query, and the page whose fetch failed
\* reaches no callback.
C9_AdapterFailurePropagates ==
  thrown # "" =>
    /\ pc = "done" /\ inflight = <<>>
    /\ result = Rejected(thrown)
    /\ op.name = "paginate" =>
         (Len(queries) = 1 /\ queries[1].kind = "count")
         \/ (Len(queries) = 2 /\ total = Len(SelectedIds))
    /\ op.name = "chunk" => Len(cbLog) = Len(queries) - 1
    /\ op.name \in {"get", "first", "find"} => Len(queries) = 1
    /\ constructed = Len(Flatten(cbLog))

\* C9 witness: chunk's second page fetch failed after one delivered page.
C9_Witness ==
  /\ op.name = "chunk" /\ thrown # "" /\ Len(cbLog) = 1 /\ Len(queries) = 2
  /\ result.state = "rejected"

---------------------------------------------------------------------------
(* Claims about the DatabaseManager, checked under SpecManager.            *)

\* C10: connection(name) throws when the name is not configured or its
\* adapter has no registered factory, and then leaves the cache as it was
\* (no entry for the name); with the configuration and the factory in place
\* the call returns the cached Connection, creating it when there is none.
C10_ConnectionFailsFastCacheUntouched ==
  [][(mgrLast'.tick # mgrLast.tick /\ mgrLast'.call = "connection") =>
       LET n == mgrLast'.name
           usable == /\ n \in DOMAIN ConfigConnections
                     /\ ConfigConnections[n].adapter \in mgrFactories
       IN /\ n \notin DOMAIN ConfigConnections =>
               mgrLast'.outcome = "threw" /\ mgrLast'.error = "not configured"
          /\ (n \in DOMAIN ConfigConnections
              /\ ConfigConnections[n].adapter \notin mgrFactories) =>
               mgrLast'.outcome = "threw" /\ mgrLast'.error = "not registered"
          /\ mgrLast'.outcome = "threw" =>
               /\ mgrConnections' = mgrConnections
               /\ mgrConnections'[n] = 0
               /\ nextConn' = nextConn
          /\ usable =>
               /\ mgrLast'.outcome = "returned"
               /\ mgrLast'.conn # 0
               /\ mgrConnections'[n] = mgrLast'.conn
               /\ mgrConnections[n] = 0 =>
                    mgrLast'.conn = nextConn + 1 /\ nextConn' = nextConn + 1]_vars

\* C10 witness: connection(name) threw for want of a factory; after the
\* factory was registered the call created and cached the connection.
C10_Witness ==
  /\ mgrLast.call = "connection" /\ mgrLast.outcome = "returned"
  /\ mgrLast.name \in mgrThrew
  /\ mgrConnections[mgrLast.name] = mgrLast.conn
  /\ factoryCalls[mgrLast.name] = 1

---------------------------------------------------------------------------
(* Claims about paginate and chunk beside another writer, checked under    *)
(* SpecConcurrent.                                                         *)

\* How many times the row of key id was handed to chunk's callback.
Delivered(id) ==
  Cardinality({kv \in {<<k, i>> : k \in 1..Len(cbLog), i \in 1..MaxPerPage + 1} :
                 kv[2] <= Len(cbLog[kv[1]])
                 /\ cbLog[kv[1]][kv[2]].attributes.id = id})

\* The rows that were in the table before the call and are still there.
PresentThroughout ==
  {id \in {table[i].id : i \in 1..Len(table)} : id \notin gone \cup born}

\* C11: chunk is offset-based and does nothing against concurrent writes:
\* every page it hands to the callback is the rows at positions
\* (page-1)*size+1 .. page*size of the table as it stands when that page is
\* fetched, whatever rows earlier pages delivered; an empty window ends the
\* call.  (So a row present throughout can be skipped or revisited: the
\* witness.)
C11_ChunkPagesArePositional ==
  [][(pc = "chunk_get" /\ pc' # "chunk_get") =>
       LET lo == (page - 1) * op.count
           rows == SubSeq(SelectedIds, lo + 1,
                           IF lo + op.count < Len(SelectedIds)
                           THEN lo + op.count ELSE Len(SelectedIds))
       IN IF rows = <<>>
          THEN pc' = "done" /\ cbLog' = cbLog
          ELSE /\ pc' = "chunk_cb"
               /\ Len(cbLog') = Len(cbLog) + 1
               /\ SubSeq(cbLog', 1, Len(cbLog)) = cbLog
               /\ IdsOf(cbLog'[Len(cbLog')]) = rows]_vars

\* C11 witness: a chunk call that ran to its empty page while another
\* writer deleted and inserted; one row that was in the table all along
\* never reached the callback and another reached it twice.
C11_Witness ==
  /\ op.name = "chunk" /\ pc = "done" /\ result.state = "resolved"
  /\ lastRet # "false"
  /\ \E id \in PresentThroughout : Delivered(id) = 0
  /\ \E id \in PresentThroughout : Delivered(id) >= 2

\* C12: paginate reads the table twice with nothing holding it still:
\* total, lastPage, from and to come from the count query's answer, data
\* from the table as the page query finds it.  (So after a write between
\* the two, to - from + 1 can differ from the length of data on a page
\* within range: the witness.)
C12_PaginateReadsTwice ==
  [][/\ (pc = "pag_count" /\ pc' = "pag_data") => total' = Len(SelectedIds)
     /\ (pc = "pag_data" /\ pc' = "done") =>
          LET m == result'.meta
              lo == (op.page - 1) * op.perPage
          IN /\ m.total = total /\ m.lastPage = LeastCover(total, op.perPage)
             /\ m.from = (IF total > 0 THEN lo + 1 ELSE 0)
             /\ m.to = (IF lo + op.perPage < total THEN lo + op.perPage ELSE total)
             /\ IdsOf(result'.models) =
                  SubSeq(SelectedIds, lo + 1,
                         IF lo + op.perPage < Len(SelectedIds)
                         THEN lo + op.perPage ELSE Len(SelectedIds))]_vars

\* C12 witness: a page within range whose data is shorter or longer than
\* to - from + 1, after a write between the count and the page query.
C12_Witness ==
  /\ result.kind = "page" /\ gone \cup born # {}
  /\ 1 <= op.page /\ op.page <= result.meta.lastPage
  /\ result.meta.to - result.meta.from + 1 # Len(result.models)

---------------------------------------------------------------------------
(* Claims about the collection, checked under SpecCollection.              *)

\* The number an attribute value stands for in an ordering.
KeyOf(item, key) == item.attributes[key].n

C14_AggregatesOfEmptyAndNonEmpty ==
  cop.key # "" =>
    /\ (cop.name \in {"sum", "avg"} /\ coll = <<>>) =>
         (cres.kind = "number" /\ cres.num = 0)
    /\ (cop.name \in {"min", "max"} /\ coll = <<>>) => cres.kind = "undefined"
    /\ (cop.name \in {"min", "max"} /\ coll # <<>>) =>
         cres.kind \in {"number", "NaN"}

\* The sum of the numeric values of an attribute over the first n records,
\* every other value counting 0.
RECURSIVE NumericTotal(_, _)
NumericTotal(key, n) ==
  IF n = 0 THEN 0
  ELSE NumericTotal(key, n - 1)
       + (IF coll[n].attributes[key].t = "number" THEN coll[n].attributes[key].n
          ELSE 0)

\* C15: sum(key) is the sum of the attribute's numeric values, a missing,
\* null or non-numeric value counting 0; avg(key) is that sum divided by
\* the number of records; neither is ever not-a-number.
C15_SumAvgCountNonNumericAsZero ==
  cop.key # "" =>
    /\ cop.name = "sum" =>
         /\ cres.kind = "number"
         /\ cres.num = NumericTotal(cop.key, Len(coll)) /\ cres.den = 1
    /\ (cop.name = "avg" /\ coll # <<>>) =>
         /\ cres.kind = "number"
         /\ cres.num * Len(coll) = NumericTotal(cop.key, Len(coll)) * cres.den
    /\ cop.name \in {"sum", "avg"} => cres.kind # "NaN"

\* C16: whereIn and only return exactly the records whose getKey() is in
\* the list, whereNotIn and except exactly those whose getKey() is not, in
\* input order.  Stated for the build in which filter() constructs its
\* result, so that a violation is about which records are kept.
C16_SetFiltersKeyedByPrimaryKey ==
  build = "downlevel" =>
    /\ cop.name \in {"whereIn", "only"} =>
         /\ cres.kind = "collection"
         /\ cres.items = SelectSeq(coll, LAMBDA item :
                                     item.attributes[KeyName] \in cop.keys)
    /\ cop.name \in {"whereNotIn", "except"} =>
         /\ cres.kind = "collection"
         /\ cres.items = SelectSeq(coll, LAMBDA item :
                                     item.attributes[KeyName] \notin cop.keys)

---------------------------------------------------------------------------
(* Claims about the receiver of paginate, chunk and find, checked under    *)
(* SpecQuery.                                                              *)

\* C17: no step of a paginate or chunk call (start, an answer, the
\* callback's return, a rejection) changes the receiver's clause lists,
\* bindings, columns, limit or offset, and every query such a call sends is
\* the receiver's state as it is, with only offset and limit set for a
\* page query: (page-1)*size and size.
C17_PaginateChunkLeaveReceiver ==
  [][op'.name \in {"paginate", "chunk"} =>
       /\ View(heap', This) = View(heap, This)
       /\ inflight' # <<>> =>
            inflight'[1].q =
              (IF inflight'[1].kind = "count" THEN View(heap, This)
               ELSE IF op'.name = "paginate"
                    THEN [View(heap, This) EXCEPT
                            !._offset = <<(op'.page - 1) * op'.perPage>>,
                            !._limit = <<op'.perPage>>]
                    ELSE [View(heap, This) EXCEPT
                            !._offset = <<(page' - 1) * op'.count>>,
                            !._limit = <<op'.count>>])]_vars

\* C17 witness: chunk has ended after several page queries on a receiver
\* that holds a where clause and a limit of its own.
C17_Witness ==
  /\ op.name = "chunk" /\ pc = "done" /\ Len(queries) >= 3
  /\ View(heap, This)._wheres # <<>> /\ View(heap, This)._limit # <<>>
  /\ View(heap, This)._limit # queries[3].limit

\* The where clause find(id) adds.
KeyClause(id) == [column |-> KeyName, operator |-> "=", value |-> id,
                  boolean |-> "and"]

\* C18 as claimed: find(id) leaves the where list and the bindings of the
\* builder it is called on as they were.
C18_FindLeavesReceiver ==
  [][op'.name = "find" =>
       /\ View(heap', This)._wheres = View(heap, This)._wheres
       /\ View(heap', This)._bindings = View(heap, This)._bindings]_vars

\* C18 amended: find(id) appends the clause primaryKey = id and its
\* binding to the builder it is called on, changes nothing else in it, and
\* the clause stays when find has returned; so on a builder without other
\* clauses or offset find(a) returns the record with key a, and find(b)
\* after it on the same instance returns null when b differs from a.
C18_FindAppendsToReceiver ==
  /\ [][op'.name = "find" =>
          IF pc = "idle"
          THEN View(heap', This) =
                 [View(heap, This) EXCEPT
                    !._wheres = Append(@, KeyClause(op'.id)),
                    !._bindings = Append(@, op'.id)]
          ELSE View(heap', This) = View(heap, This)]_vars
  /\ [](op.name = "find" /\ pc = "done" /\ thrown = "" =>
          LET w == View(heap, This)._wheres
              held == \E i \in 1..Len(table) : table[i].id = op.id
          IN /\ w # <<>> /\ w[Len(w)] = KeyClause(op.id)
             /\ (w = <<KeyClause(op.id)>> /\ held
                 /\ View(heap, This)._offset = <<>>) =>
                  /\ result.kind = "model"
                  /\ result.models[1].attributes.id = op.id
             /\ (Len(w) = 2 /\ w[1].column = KeyName /\ w[1].value # op.id) =>
                  result.kind = "null")

\* C18 witness: find(a) then find(b) on one builder, both keys in the
\* table: the second call carries both clauses and finds nothing.
C18_Witness ==
  /\ op.name = "find" /\ pc = "done" /\ result.kind = "null"
  /\ Len(View(heap, This)._wheres) = 2
  /\ View(heap, This)._wheres[1] = KeyClause(3 - op.id)
  /\ View(heap, This)._wheres[2] = KeyClause(op.id)
  /\ \E i \in 1..Len(table) : table[i].id = op.id

---------------------------------------------------------------------------
(* Claims about the connection cache, checked under SpecManager.           *)

\* This step is a call of connection().
ConnectionCalled == mgrLast'.tick # mgrLast.tick /\ mgrLast'.call = "connection"
\* This step is the settling of a disconnect().
DisconnectSettled == mgrLast'.tick # mgrLast.tick /\ mgrLast'.call = "disconnected"

\* C19: the cache maps a name to at most one Connection and holds no
\* Connection under two names.  While a name has an entry, every
\* connection(name) returns that instance without a factory call; the entry
\* goes away only when a disconnect of the name resolves, and the factory
\* runs for a name only in a connection() call that finds no entry, once,
\* whose Connection that call caches.  connection() without a name is
\* connection(config.default) for the default as it is at the call.
C19_OneCachedConnectionPerName ==
  /\ [](\A n, m \in ConnNames :
          (n # m /\ mgrConnections[n] # 0) => mgrConnections[n] # mgrConnections[m])
  /\ [][/\ \A n \in ConnNames :
            /\ (mgrConnections[n] # 0 /\ mgrConnections'[n] # mgrConnections[n]) =>
                 /\ mgrConnections'[n] = 0
                 /\ DisconnectSettled
                 /\ mgrLast'.name = n /\ mgrLast'.outcome = "resolved"
            /\ factoryCalls'[n] # factoryCalls[n] =>
                 /\ factoryCalls'[n] = factoryCalls[n] + 1
                 /\ mgrConnections[n] = 0 /\ mgrConnections'[n] = nextConn'
                 /\ nextConn' = nextConn + 1
                 /\ ConnectionCalled /\ mgrLast'.name = n
         /\ ConnectionCalled =>
              LET nm == mgrLast'.name IN
              /\ nm = (IF mgrLast'.arg = "" THEN mgrDefault ELSE mgrLast'.arg)
              /\ mgrConnections[nm] # 0 =>
                   /\ mgrLast'.outcome = "returned"
                   /\ mgrLast'.conn = mgrConnections[nm]
                   /\ factoryCalls' = factoryCalls
                   /\ mgrConnections' = mgrConnections
              /\ (mgrConnections[nm] = 0 /\ mgrLast'.outcome = "returned") =>
                   /\ mgrLast'.conn = nextConn + 1
                   /\ mgrConnections' = [mgrConnections EXCEPT ![nm] = nextConn + 1]
                   /\ factoryCalls' = [factoryCalls EXCEPT ![nm] = @ + 1]]_vars

\* C19 witness: connection() without a name returned the first Connection
\* the manager made, cached under the default name, after a second one had
\* been made for another name; the factory ran once for each.
C19_Witness ==
  /\ mgrLast.call = "connection" /\ mgrLast.arg = "" /\ mgrLast.outcome = "returned"
  /\ mgrLast.name = mgrDefault /\ mgrLast.conn = 1 /\ nextConn = 2
  /\ mgrConnections[mgrDefault] = 1
  /\ factoryCalls[mgrDefault] = 1
  /\ \E m \in ConnNames : mgrConnections[m] = 2 /\ factoryCalls[m] = 1

\* C20: a connection(name) call made while a disconnect of that name's
\* Connection is under way does not return that Connection, and when a
\* disconnect(name) has settled, resolved or rejected, the cache holds no
\* entry for the name.
C20_DisconnectingConnectionNotHandedOut ==
  [][/\ (ConnectionCalled /\ mgrLast'.outcome = "returned") =>
          \A i \in 1..Len(pending) : pending[i].conn # mgrLast'.conn
     /\ DisconnectSettled => mgrConnections'[mgrLast'.name] = 0]_vars

---------------------------------------------------------------------------
(* Claims about chunkModels, checked under SpecChunkModels.                *)

\* ceil(n / size) for size >= 1
CeilDiv(n, size) == (n + size - 1) \div size

\* C21: every call chunkModels(size), for size of either sign or 0, comes
\* to an end; and for size >= 1 it ends by returning ceil(n / size)
\* sub-collections, each of exactly size records except possibly the last,
\* whose concatenation in order is the collection.  (The second part is
\* stated for the build in which slice() constructs its result; in the
\* other one every call on a non-empty collection ends with a TypeError.)
C21_ChunkModelsTerminatesAndPartitions ==
  /\ (cop.name = "chunkModels") ~> (cres.kind # "none")
  /\ [](cop.name = "chunkModels" /\ cop.size >= 1 /\ cres.kind # "none"
        /\ build = "downlevel" =>
          /\ cres.kind = "chunks"
          /\ Len(cres.chunks) = CeilDiv(Len(coll), cop.size)
          /\ \A j \in 1..Len(cres.chunks) - 1 : Len(cres.chunks[j]) = cop.size
          /\ Flatten(cres.chunks) = coll)

====
